---- MODULE Spec2Model ----
(***************************************************************************)
(* CalVer (YYYY.MM.DD.MICRO) version management of hatch-calvar-sample:    *)
(* scripts/calc_version.py (parsing, next-version calculation) and         *)
(* src/hatch_calvar_sample/cli.py (the calver-check commands).             *)
(*                                                                         *)
(* A Python str is a sequence of one-character strings.  None is the empty *)
(* tuple (parse_calver_tag returns a 4-tuple or None, and the code only    *)
(* tests the result for truthiness).                                       *)
(***************************************************************************)
EXTENDS Integers, Sequences, FiniteSets, TLC

VARIABLES
    text,           \* pure-function runs: the string in hand
    origin,         \* pure-function runs: the 4-tuple text was formatted from, or None
    call,           \* pure-function runs: the last call [fn, arg, ret]
    git_status,     \* environment: how the git subprocess behaves
    repo_tags,      \* environment: the lines `git tag` prints
    current_date,   \* environment: datetime.utcnow() as (year, month, day)
    pkg_version,    \* environment: installed package metadata version, or NoStr
    version_file,   \* environment: content of the VERSION file, or NoStr when absent
    packaging,      \* environment: TRUE when the packaging library can be imported
    args,           \* last command invocation: the argparse namespace
    exit_code,      \* last command invocation: process exit status
    stdout,         \* last command invocation: lines printed to standard output
    stderr,         \* last command invocation: lines printed to standard error
    released        \* release runs: the calculations that returned a version, in order

fnVars == <<text, origin, call>>
envVars == <<git_status, repo_tags, current_date, pkg_version, version_file, packaging>>
procVars == <<args, exit_code, stdout, stderr>>
relVars == <<released>>
vars == <<text, origin, call, git_status, repo_tags, current_date, pkg_version,
          version_file, packaging, args, exit_code, stdout, stderr, released>>

None == << >>
NoStr == <<"None">>     \* Python None where a str is expected

(***************************************************************************)
(* Characters.  \d of a str pattern matches every Unicode decimal digit,   *)
(* and int() converts them; two scripts stand for them here: ASCII and     *)
(* ARABIC-INDIC (U+0660..U+0669, one token per character).                 *)
(***************************************************************************)
ASCII_DIGITS == <<"0", "1", "2", "3", "4", "5", "6", "7", "8", "9">>

ARABIC_INDIC_DIGITS ==
    <<"U+0660", "U+0661", "U+0662", "U+0663", "U+0664",
      "U+0665", "U+0666", "U+0667", "U+0668", "U+0669">>

IsAsciiDigit(c) == \E i \in 1..10 : ASCII_DIGITS[i] = c

IsDigit(c) == \E i \in 1..10 : ASCII_DIGITS[i] = c \/ ARABIC_INDIC_DIGITS[i] = c

DigitValue(c) ==
    (CHOOSE i \in 1..10 : ASCII_DIGITS[i] = c \/ ARABIC_INDIC_DIGITS[i] = c) - 1

IsSpace(c) == c \in {" ", "\t", "\n"}

(***************************************************************************)
(* str.strip(): drops leading and trailing whitespace.                     *)
(***************************************************************************)
RECURSIVE lstrip(_)
lstrip(s) ==
    IF s # << >> /\ IsSpace(Head(s)) THEN lstrip(Tail(s)) ELSE s

RECURSIVE rstrip(_)
rstrip(s) ==
    IF s # << >> /\ IsSpace(s[Len(s)]) THEN rstrip(SubSeq(s, 1, Len(s) - 1)) ELSE s

strip(s) == rstrip(lstrip(s))

(***************************************************************************)
(* CALVER_PATTERN.match(s): the pattern is matched left to right from      *)
(* position 1; each helper returns the position after its piece, or 0 when *)
(* the piece does not match.  No piece has a second way to match (v is no  *)
(* digit, and \d+ before $ must take every digit), so there is no          *)
(* backtracking to model.                                                  *)
(***************************************************************************)
NoMatch == 0

\* mutant: the pattern without v?
MatchOptionalV_Absent(s, p) == p

\* v?
MatchOptionalV(s, p) ==
    IF p = NoMatch THEN NoMatch
    ELSE IF p <= Len(s) /\ s[p] = "v" THEN p + 1 ELSE p

\* \d{n}
MatchDigits(s, p, n) ==
    IF p = NoMatch THEN NoMatch
    ELSE IF p + n - 1 <= Len(s) /\ \A i \in p..(p + n - 1) : IsDigit(s[i])
         THEN p + n ELSE NoMatch

\* \.
MatchDot(s, p) ==
    IF p = NoMatch THEN NoMatch
    ELSE IF p <= Len(s) /\ s[p] = "." THEN p + 1 ELSE NoMatch

\* \d+ (greedy)
RECURSIVE MatchDigitRun(_, _)
MatchDigitRun(s, p) ==
    IF p <= Len(s) /\ IsDigit(s[p]) THEN MatchDigitRun(s, p + 1) ELSE p

MatchOneOrMoreDigits(s, p) ==
    IF p = NoMatch THEN NoMatch
    ELSE IF MatchDigitRun(s, p) > p THEN MatchDigitRun(s, p) ELSE NoMatch

\* mutant: the pattern without $
MatchEnd_Unanchored(s, p) == p # NoMatch

\* $ : at the end of the string, or just before a newline that ends it
MatchEnd(s, p) ==
    IF p = NoMatch THEN FALSE
    ELSE p = Len(s) + 1 \/ (p = Len(s) /\ s[p] = "\n")

CALVER_PATTERN_match(s) ==
    LET p0 == MatchOptionalV(s, 1)
        p1 == MatchDigits(s, p0, 4)
        p2 == MatchDot(s, p1)
        p3 == MatchDigits(s, p2, 2)
        p4 == MatchDot(s, p3)
        p5 == MatchDigits(s, p4, 2)
        p6 == MatchDot(s, p5)
        p7 == MatchOneOrMoreDigits(s, p6)
    IN  IF MatchEnd(s, p7)
        THEN [matched |-> TRUE,
              year    |-> SubSeq(s, p0, p1 - 1),
              month   |-> SubSeq(s, p2, p3 - 1),
              day     |-> SubSeq(s, p4, p5 - 1),
              micro   |-> SubSeq(s, p6, p7 - 1)]
        ELSE [matched |-> FALSE]

(***************************************************************************)
(* int(digits): base-10 value of a run of digits.                          *)
(***************************************************************************)
RECURSIVE int(_)
int(s) ==
    IF s = << >> THEN 0
    ELSE 10 * int(SubSeq(s, 1, Len(s) - 1)) + DigitValue(s[Len(s)])

(***************************************************************************)
(* parse_calver_tag(tag) -> (year, month, day, micro) or None.             *)
(***************************************************************************)
\* mutant: the validation without the check of micro
Validated_NoMicroCheck(year, month, day, micro) ==
    IF ~(1 <= month /\ month <= 12) THEN None
    ELSE IF ~(1 <= day /\ day <= 31) THEN None
    ELSE <<year, month, day, micro>>

\* the basic validation of the four integers
Validated(year, month, day, micro) ==
    IF ~(1 <= month /\ month <= 12) THEN None
    ELSE IF ~(1 <= day /\ day <= 31) THEN None
    ELSE IF micro < 1 THEN None
    ELSE <<year, month, day, micro>>

\* what follows match = CALVER_PATTERN.match(tag.strip())
FromMatch(match) ==
    IF ~match.matched THEN None
    ELSE Validated(int(match.year), int(match.month), int(match.day), int(match.micro))

parse_calver_tag(tag) == FromMatch(CALVER_PATTERN_match(strip(tag)))

validate_version_format(version) == parse_calver_tag(version) # None

(***************************************************************************)
(* Formatting of integers in f-strings: {n} and {n:0Wd} (n >= 0).          *)
(***************************************************************************)
RECURSIVE str(_)
str(n) ==
    IF n < 10 THEN <<ASCII_DIGITS[n + 1]>>
    ELSE str(n \div 10) \o <<ASCII_DIGITS[(n % 10) + 1]>>

\* mutant: {n:d} in place of {n:0Wd}
ZeroPad_None(s, width) == s

RECURSIVE ZeroPad(_, _)
ZeroPad(s, width) ==
    IF Len(s) >= width THEN s ELSE ZeroPad(<<"0">> \o s, width)

\* f"{year:04d}.{month:02d}.{day:02d}"
date_prefix(year, month, day) ==
    ZeroPad(str(year), 4) \o <<".">> \o ZeroPad(str(month), 2)
        \o <<".">> \o ZeroPad(str(day), 2)

\* mutant: the micro joined with "-"
FormatVersion_Dash(year, month, day, micro) ==
    date_prefix(year, month, day) \o <<"-">> \o str(micro)

\* f"{date_prefix}.{next_micro}"
FormatVersion(year, month, day, micro) ==
    date_prefix(year, month, day) \o <<".">> \o str(micro)

(***************************************************************************)
(* Outcome of a call that may raise: the exception's name, or "" and the   *)
(* value returned.                                                         *)
(***************************************************************************)
Return(v) == [exc |-> "", val |-> v]
Raise(e) == [exc |-> e, val |-> None]

(***************************************************************************)
(* get_git_tags(): `git fetch --tags` then `git tag`.  status says how the *)
(* subprocess calls end: "ok" (git tag exits 0 and prints lines),          *)
(* "CalledProcessError" (git tag exits non-zero), "FileNotFoundError" (no  *)
(* git executable), "PermissionError" (git cannot be executed: an OSError  *)
(* that is neither of the two the function catches).                       *)
(***************************************************************************)
RECURSIVE StrippedNonBlank(_)
StrippedNonBlank(lines) ==
    IF lines = << >> THEN << >>
    ELSE (IF strip(Head(lines)) # << >> THEN <<strip(Head(lines))>> ELSE << >>)
            \o StrippedNonBlank(Tail(lines))

get_git_tags(status, lines) ==
    IF status = "ok" THEN Return(StrippedNonBlank(lines))
    ELSE IF status = "CalledProcessError" THEN Return(<< >>)
    ELSE IF status = "FileNotFoundError" THEN Return(<< >>)
    ELSE Raise(status)

(***************************************************************************)
(* calculate_next_version(): date is what get_current_date() returns,      *)
(* status and lines are what get_git_tags() meets.                         *)
(***************************************************************************)
\* for tag in tags: parsed = parse_calver_tag(tag); if parsed: append
RECURSIVE CalverTags(_)
CalverTags(tags) ==
    IF tags = << >> THEN << >>
    ELSE LET parsed == parse_calver_tag(Head(tags)) IN
         (IF parsed # None THEN <<parsed>> ELSE << >>) \o CalverTags(Tail(tags))

\* [(y, m, d, micro) for ... in calver_tags if (y, m, d) == current_date]
SameDateTags(calver_tags, date) ==
    SelectSeq(calver_tags, LAMBDA t : <<t[1], t[2], t[3]>> = date)

\* max(micro for _, _, _, micro in same_date_tags), same_date_tags not empty
RECURSIVE MaxMicro(_)
MaxMicro(same_date_tags) ==
    IF Len(same_date_tags) = 1 THEN same_date_tags[1][4]
    ELSE LET rest == MaxMicro(Tail(same_date_tags)) IN
         IF same_date_tags[1][4] > rest THEN same_date_tags[1][4] ELSE rest

\* mutant: the number of tags of the day in place of their largest micro
NextMicro_Count(same_date_tags) == Len(same_date_tags) + 1

\* mutant: the largest micro of the day itself, not the one after it
NextMicro_NoIncrement(same_date_tags) ==
    IF same_date_tags # << >> THEN MaxMicro(same_date_tags) ELSE 1

NextMicro(same_date_tags) ==
    IF same_date_tags # << >> THEN MaxMicro(same_date_tags) + 1 ELSE 1

\* what follows tags = get_git_tags(); an exception of get_git_tags leaves
\* calculate_next_version too
NextVersionFrom(date, tags) ==
    IF tags.exc # "" THEN Raise(tags.exc)
    ELSE Return(FormatVersion(date[1], date[2], date[3],
                              NextMicro(SameDateTags(CalverTags(tags.val), date))))

calculate_next_version(date, status, lines) ==
    NextVersionFrom(date, get_git_tags(status, lines))

(***************************************************************************)
(* check_pep440_compliance(version).  importable says whether packaging    *)
(* can be imported.  packaging.version.Version(version) raises             *)
(* InvalidVersion unless version is, between optional whitespace, a PEP    *)
(* 440 version: of that grammar the part the texts here can reach is       *)
(* [v]N(.N)* with N a run of the digits 0-9.                               *)
(***************************************************************************)
\* N(.N)* from position p to the end of s
RECURSIVE IsReleaseSegment(_, _)
IsReleaseSegment(s, p) ==
    LET q == CHOOSE k \in p..(Len(s) + 1) :
                 /\ \A i \in p..(k - 1) : IsAsciiDigit(s[i])
                 /\ (k = Len(s) + 1 \/ ~IsAsciiDigit(s[k]))
    IN  /\ q > p
        /\ \/ q = Len(s) + 1
           \/ s[q] = "." /\ IsReleaseSegment(s, q + 1)

packaging_Version_accepts(version) ==
    LET s == strip(version)
        p == IF Len(s) > 0 /\ s[1] \in {"v", "V"} THEN 2 ELSE 1
    IN  IsReleaseSegment(s, p)

check_pep440_compliance(version, importable) ==
    IF ~validate_version_format(version) THEN FALSE
    ELSE IF ~importable THEN validate_version_format(version)
    ELSE packaging_Version_accepts(version)

(***************************************************************************)
(* Comparison of tuples of integers as Python does it: the first position  *)
(* where the two differ decides; without one, the lengths decide.          *)
(***************************************************************************)
\* mutant: the last position where the two differ decides
FirstDifference_Last(a, b) ==
    LET n == IF Len(a) < Len(b) THEN Len(a) ELSE Len(b)
        diff == { i \in 1..n : a[i] # b[i] }
    IN  IF diff = {} THEN 0 ELSE CHOOSE i \in diff : \A j \in diff : i >= j

FirstDifference(a, b) ==
    LET n == IF Len(a) < Len(b) THEN Len(a) ELSE Len(b)
        diff == { i \in 1..n : a[i] # b[i] }
    IN  IF diff = {} THEN 0 ELSE CHOOSE i \in diff : \A j \in diff : i <= j

TupleLt(a, b) ==
    LET i == FirstDifference(a, b) IN
    IF i = 0 THEN Len(a) < Len(b) ELSE a[i] < b[i]

TupleGt(a, b) ==
    LET i == FirstDifference(a, b) IN
    IF i = 0 THEN Len(a) > Len(b) ELSE a[i] > b[i]

(***************************************************************************)
(* What a command leaves behind: its exit status and the lines it printed. *)
(* A printed line is text (its characters, a literal of the source being   *)
(* one token) or the object handed to json.dumps.                          *)
(***************************************************************************)
Out(code, out, err) == [exit_code |-> code, stdout |-> out, stderr |-> err]
Text(chars) == [kind |-> "text", body |-> chars]
Json(obj) == [kind |-> "json", body |-> obj]

\* an exception that leaves the command: the interpreter prints the
\* traceback on standard error and exits with status 1
Uncaught(exc) == Out(1, << >>, <<Text(<<"Traceback (most recent call last): ", exc>>)>>)

\* truth value of an Optional[str]
Truthy(s) == s # NoStr /\ s # << >>

\* characters of the comparison result
ResultChars(result) == IF result = "==" THEN <<"=", "=">> ELSE <<result>>

(***************************************************************************)
(* version_compare(args)                                                   *)
(***************************************************************************)
\* if v1 < v2 ... elif v1 > v2 ... else ...
Comparison(v1, v2) ==
    IF TupleLt(v1, v2) THEN "<"
    ELSE IF TupleGt(v1, v2) THEN ">"
    ELSE "=="

\* the report of a comparison
CompareOutput(json, v1_str, v2_str, result) ==
    IF json
    THEN Out(0, <<Json([version1 |-> v1_str, version2 |-> v2_str,
                        comparison |-> result])>>, << >>)
    ELSE Out(0, <<Text(v1_str \o <<" ">> \o ResultChars(result)
                         \o <<" ">> \o v2_str)>>, << >>)

\* mutant: the second version is not checked
CompareParsed_V2Unchecked(json, v1_str, v2_str, v1, v2) ==
    IF v1 = None
    THEN Out(1, << >>, <<Text(<<"Error: invalid version format: ">> \o v1_str)>>)
    ELSE CompareOutput(json, v1_str, v2_str, Comparison(v1, v2))

\* what follows v1 = parse_calver_tag(v1_str); v2 = parse_calver_tag(v2_str)
CompareParsed(json, v1_str, v2_str, v1, v2) ==
    IF v1 = None
    THEN Out(1, << >>, <<Text(<<"Error: invalid version format: ">> \o v1_str)>>)
    ELSE IF v2 = None
    THEN Out(1, << >>, <<Text(<<"Error: invalid version format: ">> \o v2_str)>>)
    ELSE CompareOutput(json, v1_str, v2_str, Comparison(v1, v2))

version_compare(a) ==
    IF Len(a.versions) # 2
    THEN Out(1, << >>,
             <<Text(<<"Error: exactly two versions required for comparison">>)>>)
    ELSE CompareParsed(a.json, a.versions[1], a.versions[2],
                       parse_calver_tag(a.versions[1]), parse_calver_tag(a.versions[2]))

(***************************************************************************)
(* version_validate(args)                                                  *)
(***************************************************************************)
\* the report of a validation
ValidateOutput(json, version, is_valid_format, is_pep440) ==
    IF json
    THEN Out(IF is_valid_format /\ is_pep440 THEN 0 ELSE 1,
             <<Json([version |-> version, valid_format |-> is_valid_format,
                     pep440_compliant |-> is_pep440])>>, << >>)
    ELSE IF ~is_valid_format
    THEN Out(1, << >>, <<Text(<<"Invalid CalVer format: ">> \o version)>>)
    ELSE IF ~is_pep440
    THEN Out(1, << >>, <<Text(<<"Version not PEP 440 compliant: ">> \o version)>>)
    ELSE Out(0, <<Text(<<"Version '">> \o version
                         \o <<"' is valid and PEP 440 compliant">>)>>, << >>)

\* is_pep440 = False; if is_valid_format: is_pep440 = check_pep440_compliance(version)
Pep440IfValid(version, is_valid_format, importable) ==
    IF is_valid_format THEN check_pep440_compliance(version, importable) ELSE FALSE

\* what follows is_valid_format = validate_version_format(version)
ValidateChecked(json, version, is_valid_format, importable) ==
    ValidateOutput(json, version, is_valid_format,
                   Pep440IfValid(version, is_valid_format, importable))

version_validate(a, importable) ==
    IF ~Truthy(a.version)
    THEN Out(1, << >>, <<Text(<<"Error: version argument required">>)>>)
    ELSE ValidateChecked(a.json, a.version, validate_version_format(a.version),
                         importable)

(***************************************************************************)
(* version_calc(args)                                                      *)
(***************************************************************************)
\* what follows the call of calculate_next_version() in the try block
CalcOutput(json, version) ==
    IF version.exc # ""
    THEN Out(1, << >>, <<Text(<<"Error calculating version: ", version.exc>>)>>)
    ELSE IF json
    THEN Out(0, <<Json([version |-> version.val])>>, << >>)
    ELSE Out(0, <<Text(version.val)>>, << >>)

version_calc(a, date, status, lines) ==
    CalcOutput(a.json, calculate_next_version(date, status, lines))

(***************************************************************************)
(* version_check(args).  metadata is what                                  *)
(* get_package_version_from_metadata() returns, file the content of the    *)
(* VERSION file (NoStr when it does not exist).  The versions dict is the  *)
(* sequence of its (key, value) items in insertion order.                  *)
(***************************************************************************)
\* [tag for tag in git_tags if parse_calver_tag(tag)]
OnlyCalver(git_tags) == SelectSeq(git_tags, LAMBDA tag : parse_calver_tag(tag) # None)

\* parsed_tags.sort(key=lambda x: x[1], reverse=True): stable, so among equal
\* keys the earlier element stays first
RECURSIVE InsertDescending(_, _)
InsertDescending(x, sorted) ==
    IF sorted = << >> THEN <<x>>
    ELSE IF TupleGt(sorted[1][2], x[2])
         THEN <<sorted[1]>> \o InsertDescending(x, Tail(sorted))
         ELSE <<x>> \o sorted

RECURSIVE SortDescending(_)
SortDescending(parsed_tags) ==
    IF parsed_tags = << >> THEN << >>
    ELSE InsertDescending(Head(parsed_tags), SortDescending(Tail(parsed_tags)))

\* mutant: the first CalVer tag in the order git lists them, without sorting
LatestTag_First(calver_tags) == calver_tags[1]

LatestTag(calver_tags) ==
    SortDescending([i \in 1..Len(calver_tags) |->
                       <<calver_tags[i], parse_calver_tag(calver_tags[i])>>])[1][1]

\* Remove 'v' prefix if present
WithoutVPrefix(latest_tag) ==
    IF latest_tag[1] = "v" THEN Tail(latest_tag) ELSE latest_tag

RECURSIVE VersionLines(_)
VersionLines(versions) ==
    IF versions = << >> THEN << >>
    ELSE <<Text(<<"  ", versions[1][1], ": ">> \o versions[1][2])>>
            \o VersionLines(Tail(versions))

\* the versions dict, filled source by source
Versions(metadata, calver_tags, file) ==
    (IF Truthy(metadata) THEN << <<"package", metadata>> >> ELSE << >>)
    \o (IF calver_tags # << >>
        THEN << <<"git_tag", WithoutVPrefix(LatestTag(calver_tags))>> >>
        ELSE << >>)
    \o (IF file # NoStr THEN << <<"file", strip(file)>> >> ELSE << >>)

\* the report of the versions found
CheckOutput(json, versions) ==
    IF json
    THEN Out(0, <<Json([versions |-> versions])>>, << >>)
    ELSE IF versions # << >>
    THEN Out(0, <<Text(<<"Current versions:">>)>> \o VersionLines(versions), << >>)
    ELSE Out(1, << >>, <<Text(<<"No version information found">>)>>)

\* what follows git_tags = get_git_tags(): the function has no try block, so
\* an exception of get_git_tags leaves the command
CheckWithTags(json, metadata, git_tags, file) ==
    IF git_tags.exc # "" THEN Uncaught(git_tags.exc)
    ELSE CheckOutput(json, Versions(metadata, OnlyCalver(git_tags.val), file))

version_check(a, metadata, status, lines, file) ==
    CheckWithTags(a.json, metadata, get_git_tags(status, lines), file)

(***************************************************************************)
(* version_info(args).  The info dict is the sequence of its items.        *)
(***************************************************************************)
RECURSIVE InfoLines(_)
InfoLines(info) ==
    IF info = << >> THEN << >>
    ELSE <<Text(<<"  ", info[1][1], ": ">> \o info[1][2])>> \o InfoLines(Tail(info))

\* the items the try block adds for a next version that parses
NextVersionItems(next_version, parsed) ==
    IF parsed # None
    THEN << <<"next_version", next_version>>,
            <<"date", ZeroPad(str(parsed[1]), 4) \o <<"-">>
                        \o ZeroPad(str(parsed[2]), 2) \o <<"-">>
                        \o ZeroPad(str(parsed[3]), 2)>>,
            <<"micro", str(parsed[4])>> >>
    ELSE << >>

\* the try block: an exception becomes the item next_version_error
TryNextVersion(next_version) ==
    IF next_version.exc # ""
    THEN << <<"next_version_error", <<next_version.exc>> >> >>
    ELSE NextVersionItems(next_version.val, parse_calver_tag(next_version.val))

\* the report of the info dict
InfoOutput(json, info) ==
    IF json
    THEN Out(0, <<Json([info |-> info])>>, << >>)
    ELSE Out(0, <<Text(<<"Version Information:">>)>> \o InfoLines(info), << >>)

version_info(a, date, status, lines, metadata) ==
    InfoOutput(a.json,
        TryNextVersion(calculate_next_version(date, status, lines))
        \o (IF Truthy(metadata)
            THEN << <<"current_package_version", metadata>> >> ELSE << >>))

(***************************************************************************)
(* Inputs of the pure-function runs.  A tag text is assembled from a lead, *)
(* a year, a month segment, a day segment, a micro segment and a trail, so *)
(* that well-formed tags and every kind of deviation occur.                *)
(***************************************************************************)
Leads ==
    { << >>, <<"v">>, <<" ">>, <<"v", "v">>, <<"x">>, <<" ", "v">>, <<"v", " ">> }

YearTexts ==
    { <<"2", "0", "2", "4">>, <<"2", "0", "2">>, <<"2", "0", "2", "4", "5">>,
      <<"2", "x", "2", "4">>, <<"U+0662", "U+0660", "U+0662", "U+0664">> }

MonthSegs ==
    { <<".", "0", "1">>, <<".", "0", "2">>, <<".", "1", "2">>, <<".", "1", "3">>,
      <<".", "0", "0">>, <<".", "1">>, <<"-", "0", "1">> }

DaySegs ==
    { <<".", "1", "8">>, <<".", "3", "1">>, <<".", "3", "2">>, <<".", "0", "0">>,
      <<".", "8">> }

MicroSegs ==
    { <<".", "1">>, <<".", "0">>, <<".", "1", "0">>, <<".", "0", "1">>, <<".">>,
      << >>, <<".", "U+0661">> }

Trails == { << >>, <<" ">>, <<"\n">>, <<"x">>, <<".", "1">> }

TagTexts ==
    { l \o y \o m \o d \o u \o t :
        l \in Leads, y \in YearTexts, m \in MonthSegs, d \in DaySegs,
        u \in MicroSegs, t \in Trails }

Years == {1, 999, 2024, 9999}       \* within datetime.MINYEAR..datetime.MAXYEAR
Micros == {1, 9, 10, 120}

Values == { <<y, m, d, u>> : y \in Years, m \in 1..12, d \in 1..31, u \in Micros }

NoCall == [fn |-> "", arg |-> None, ret |-> None]

\* The parts of the state a run does not use stay at these values.
IdleFn == text = NoStr /\ origin = None /\ call = NoCall

IdleEnv ==
    /\ git_status = "ok"
    /\ repo_tags = << >>
    /\ current_date = <<2024, 1, 18>>
    /\ pkg_version = NoStr
    /\ version_file = NoStr
    /\ packaging = TRUE

IdleProc ==
    /\ args = [command |-> ""]
    /\ exit_code = 0
    /\ stdout = << >>
    /\ stderr = << >>

IdleRel == released = << >>

(***************************************************************************)
(* Pure-function runs: a text or a value is in hand; the functions of      *)
(* calc_version.py are applied to it.                                      *)
(***************************************************************************)
FnInit ==
    /\ \/ text \in TagTexts /\ origin = None
       \/ text = NoStr /\ origin \in Values
    /\ call = NoCall
    /\ IdleEnv /\ IdleProc /\ IdleRel

\* f"{year:04d}.{month:02d}.{day:02d}.{micro}" of the value in hand
Format ==
    /\ origin # None /\ text = NoStr
    /\ text' = FormatVersion(origin[1], origin[2], origin[3], origin[4])
    /\ call' = [fn |-> "format", arg |-> origin, ret |-> text']
    /\ UNCHANGED <<origin, envVars, procVars, relVars>>

ParseCalverTag ==
    /\ text # NoStr
    /\ call' = [fn |-> "parse_calver_tag", arg |-> text, ret |-> parse_calver_tag(text)]
    /\ UNCHANGED <<text, origin, envVars, procVars, relVars>>

ValidateVersionFormat ==
    /\ text # NoStr
    /\ call' = [fn |-> "validate_version_format", arg |-> text,
                ret |-> validate_version_format(text)]
    /\ UNCHANGED <<text, origin, envVars, procVars, relVars>>

FnNext == Format \/ ParseCalverTag \/ ValidateVersionFormat

SpecFn == FnInit /\ [][FnNext]_vars

(***************************************************************************)
(* The textual form of a CalVer value, stated on its own: what the claims  *)
(* about parsing compare the code against.                                 *)
(***************************************************************************)
DecimalDigitChars ==
    { ASCII_DIGITS[i] : i \in 1..10 } \cup { ARABIC_INDIC_DIGITS[i] : i \in 1..10 }

WhitespaceChars == {" ", "\t", "\n"}

\* s without one leading "v"
WithoutV(s) == IF Len(s) > 0 /\ s[1] = "v" THEN SubSeq(s, 2, Len(s)) ELSE s

\* s is [v]DDDD.DD.DD.D+ and nothing else
IsCalverShape(s) ==
    LET b == WithoutV(s) IN
    /\ Len(b) >= 12
    /\ \A i \in 1..Len(b) :
          IF i \in {5, 8, 11} THEN b[i] = "." ELSE b[i] \in DecimalDigitChars

\* s between its first and its last character that is not whitespace
Trimmed(s) ==
    LET keep == { i \in 1..Len(s) : s[i] \notin WhitespaceChars } IN
    IF keep = {} THEN << >>
    ELSE SubSeq(s, CHOOSE i \in keep : \A j \in keep : i <= j,
                   CHOOSE i \in keep : \A j \in keep : i >= j)

\* the number a digit character stands for
Numeral(c) ==
    CHOOSE n \in 0..9 : ASCII_DIGITS[n + 1] = c \/ ARABIC_INDIC_DIGITS[n + 1] = c

\* month, day of a text of CalVer shape, and whether its micro is at least 1
MonthOf(s) == LET b == WithoutV(s) IN 10 * Numeral(b[6]) + Numeral(b[7])
DayOf(s) == LET b == WithoutV(s) IN 10 * Numeral(b[9]) + Numeral(b[10])
MicroPositive(s) ==
    LET b == WithoutV(s) IN \E i \in 12..Len(b) : Numeral(b[i]) > 0

InRange(s) ==
    /\ 1 <= MonthOf(s) /\ MonthOf(s) <= 12
    /\ 1 <= DayOf(s) /\ DayOf(s) <= 31
    /\ MicroPositive(s)

Parsed == call.fn = "parse_calver_tag"

(***************************************************************************)
(* C3 as stated: parse_calver_tag returns a value only for strings that    *)
(* are exactly [v]DDDD.DD.DD.D+; any leading or trailing content yields    *)
(* None.                                                                   *)
(***************************************************************************)
C3_Original == Parsed /\ call.ret # None => IsCalverShape(call.arg)

(***************************************************************************)
(* C3 amended: parse_calver_tag returns a value only for strings that,     *)
(* once leading and trailing whitespace is removed, are exactly            *)
(* [v]DDDD.DD.DD.D+; any other string yields None.                         *)
(***************************************************************************)
C3_GrammarAfterStrip == Parsed /\ call.ret # None => IsCalverShape(Trimmed(call.arg))

C3_Witness ==
    /\ Parsed /\ call.ret # None
    /\ call.arg # Trimmed(call.arg)
    /\ call.arg[1] = " " /\ call.arg[2] = "v"

(***************************************************************************)
(* C4: every value returned has 1 <= month <= 12, 1 <= day <= 31 and       *)
(* micro >= 1; a text of the right shape with a field out of range yields  *)
(* None; a text of the right shape with the fields in range is accepted,   *)
(* whatever the month (no per-month calendar check).                       *)
(***************************************************************************)
C4_RangeChecks ==
    Parsed =>
        /\ call.ret # None =>
              /\ Len(call.ret) = 4
              /\ 1 <= call.ret[2] /\ call.ret[2] <= 12
              /\ 1 <= call.ret[3] /\ call.ret[3] <= 31
              /\ call.ret[4] >= 1
        /\ IsCalverShape(Trimmed(call.arg)) =>
              (call.ret # None <=> InRange(Trimmed(call.arg)))

\* day 31 of month 02 was parsed and accepted
C4_Witness == Parsed /\ call.ret # None /\ call.ret[2] = 2 /\ call.ret[3] = 31

\* a text of the right shape was rejected by a range check
C4_WitnessRejected ==
    Parsed /\ call.ret = None /\ IsCalverShape(Trimmed(call.arg))

(***************************************************************************)
(* C5: round trip.  Parsing the canonical text of a valid value            *)
(* (y, m, d, micro) returns exactly (y, m, d, micro).                      *)
(***************************************************************************)
C5_RoundTrip == Parsed /\ origin # None => call.ret = origin

\* a value whose year needs zero padding and whose micro has several digits
C5_Witness ==
    /\ Parsed /\ origin # None /\ call.ret = origin
    /\ origin[1] < 1000 /\ origin[2] < 10 /\ origin[4] >= 10

(***************************************************************************)
(* C6 as stated: for every string s without a "v" prefix,                  *)
(* parse_calver_tag("v" + s) and parse_calver_tag(s) are both None or the  *)
(* same value.                                                             *)
(***************************************************************************)
HasVPrefix(s) == Len(s) > 0 /\ s[1] = "v"

C6_Original ==
    Parsed /\ ~HasVPrefix(call.arg) =>
        parse_calver_tag(<<"v">> \o call.arg) = call.ret

(***************************************************************************)
(* C6 amended: for every string s that starts neither with "v" nor with    *)
(* whitespace, parse_calver_tag("v" + s) and parse_calver_tag(s) are both  *)
(* None or the same value; when they are a value, "v" + s and s compare as *)
(* equal and count alike in the next-version calculation of their day.     *)
(***************************************************************************)
C6_PrefixIrrelevance ==
    Parsed /\ ~HasVPrefix(call.arg)
           /\ ~(Len(call.arg) > 0 /\ call.arg[1] \in WhitespaceChars) =>
        /\ parse_calver_tag(<<"v">> \o call.arg) = call.ret
        /\ call.ret # None =>
              /\ Comparison(parse_calver_tag(<<"v">> \o call.arg), call.ret) = "=="
              /\ calculate_next_version(SubSeq(call.ret, 1, 3), "ok",
                                        << <<"v">> \o call.arg >>)
                    = calculate_next_version(SubSeq(call.ret, 1, 3), "ok", <<call.arg>>)
              /\ calculate_next_version(SubSeq(call.ret, 1, 3), "ok",
                                        << <<"v">> \o call.arg >>).val
                    = FormatVersion(call.ret[1], call.ret[2], call.ret[3],
                                    call.ret[4] + 1)

C6_Witness ==
    /\ Parsed /\ ~HasVPrefix(call.arg) /\ call.ret # None
    /\ call.arg[1] \notin WhitespaceChars
    /\ parse_calver_tag(<<"v">> \o call.arg) = call.ret

(***************************************************************************)
(* Calculator runs: the environment (date, git, tags) is drawn, and        *)
(* calculate_next_version() is called in it.                               *)
(***************************************************************************)
MaxTags == 3

\* "v2024.01.18.1", "2024.01.18.2", "2024.01.18.10", "2024.01.17.5",
\* "2024.01.19.3", "v1.2.3", "2024.01.18.0", ""
TagPool ==
    { <<"v", "2", "0", "2", "4", ".", "0", "1", ".", "1", "8", ".", "1">>,
      <<"2", "0", "2", "4", ".", "0", "1", ".", "1", "8", ".", "2">>,
      <<"2", "0", "2", "4", ".", "0", "1", ".", "1", "8", ".", "1", "0">>,
      <<"2", "0", "2", "4", ".", "0", "1", ".", "1", "7", ".", "5">>,
      <<"2", "0", "2", "4", ".", "0", "1", ".", "1", "9", ".", "3">>,
      <<"v", "1", ".", "2", ".", "3">>,
      <<"2", "0", "2", "4", ".", "0", "1", ".", "1", "8", ".", "0">>,
      << >> }

Dates == { <<2024, 1, 18>>, <<2024, 1, 19>>, <<999, 12, 31>> }

GitStatuses == {"ok", "CalledProcessError", "FileNotFoundError", "PermissionError"}

TagLists == UNION { [1..n -> TagPool] : n \in 0..MaxTags }

CalcInit ==
    /\ git_status \in GitStatuses
    /\ repo_tags \in TagLists
    /\ current_date \in Dates
    /\ pkg_version = NoStr /\ version_file = NoStr /\ packaging = TRUE
    /\ IdleFn /\ IdleProc /\ IdleRel

CalculateNextVersion ==
    /\ call' = [fn  |-> "calculate_next_version",
                arg |-> <<current_date, repo_tags>>,
                ret |-> calculate_next_version(current_date, git_status, repo_tags)]
    /\ UNCHANGED <<text, origin, envVars, procVars, relVars>>

GetGitTags ==
    /\ call' = [fn  |-> "get_git_tags",
                arg |-> None,
                ret |-> get_git_tags(git_status, repo_tags)]
    /\ UNCHANGED <<text, origin, envVars, procVars, relVars>>

CalcNext == CalculateNextVersion \/ GetGitTags

SpecCalc == CalcInit /\ [][CalcNext]_vars

Calculated == call.fn = "calculate_next_version" /\ call.ret.exc = ""

\* the micros of the tags of the collection that parse and carry the date
MicrosOn(date, lines) ==
    { parse_calver_tag(lines[i])[4] :
        i \in { j \in 1..Len(lines) :
                  /\ parse_calver_tag(lines[j]) # None
                  /\ SubSeq(parse_calver_tag(lines[j]), 1, 3) = date } }

ExpectedMicro(date, lines) ==
    IF MicrosOn(date, lines) = {} THEN 1
    ELSE 1 + CHOOSE m \in MicrosOn(date, lines) : \A n \in MicrosOn(date, lines) : n <= m

\* the tag collection git hands over: the lines when git tag succeeds
Collection == IF git_status = "ok" THEN repo_tags ELSE << >>

(***************************************************************************)
(* C1: calculate_next_version returns the canonical text of (current date, *)
(* next_micro), next_micro being 1 + the largest micro among the tags that *)
(* parse and carry the current date, or 1 when there is none; the tags     *)
(* that do not parse or carry another date do not change the result.       *)
(***************************************************************************)
C1_NextVersion ==
    Calculated =>
        /\ call.ret.val =
              FormatVersion(current_date[1], current_date[2], current_date[3],
                            ExpectedMicro(current_date, Collection))
        /\ call.ret.val =
              calculate_next_version(current_date, "ok",
                  SelectSeq(Collection,
                      LAMBDA t : /\ parse_calver_tag(t) # None
                                 /\ SubSeq(parse_calver_tag(t), 1, 3) = current_date)).val

\* micros 2 and 10 of today among a tag of another date and one that does not parse
C1_Witness ==
    /\ Calculated /\ git_status = "ok"
    /\ MicrosOn(current_date, repo_tags) = {2, 10}
    /\ Len(repo_tags) = 3
    /\ call.ret.val = FormatVersion(2024, 1, 18, 11)

(***************************************************************************)
(* C2: the string calculate_next_version returns is a valid CalVer string: *)
(* validate_version_format accepts it, and it parses to the current date   *)
(* with micro >= 1.                                                        *)
(***************************************************************************)
C2_ResultIsValid ==
    Calculated =>
        /\ validate_version_format(call.ret.val)
        /\ SubSeq(parse_calver_tag(call.ret.val), 1, 3) = current_date
        /\ parse_calver_tag(call.ret.val)[4] >= 1

\* a year that needs zero padding, and no tag of that day
C2_Witness ==
    /\ Calculated /\ current_date[1] < 1000 /\ Len(repo_tags) = MaxTags
    /\ parse_calver_tag(call.ret.val) = <<999, 12, 31, 1>>

(***************************************************************************)
(* C11 as stated: whenever the tag source fetch fails (git missing, git    *)
(* exiting non-zero, or any other failure of the subprocess call),         *)
(* get_git_tags returns the empty list instead of raising, and             *)
(* calculate_next_version then yields micro 1 for the current date.        *)
(***************************************************************************)
FetchFailed == git_status # "ok"

C11_Original ==
    /\ call.fn = "get_git_tags" /\ FetchFailed => call.ret = Return(<< >>)
    /\ call.fn = "calculate_next_version" /\ FetchFailed =>
          call.ret = Return(FormatVersion(current_date[1], current_date[2],
                                          current_date[3], 1))

(***************************************************************************)
(* The calver-check commands.  One run of the program executes one command *)
(* and exits: a command starts in a process that has not run one yet.      *)
(***************************************************************************)
NotRun == args.command = ""

Ran(a, out) ==
    /\ args' = a
    /\ exit_code' = out.exit_code
    /\ stdout' = out.stdout
    /\ stderr' = out.stderr
    /\ UNCHANGED <<fnVars, envVars, relVars>>

(***************************************************************************)
(* The commands that read the environment (calc, check, info): the         *)
(* environment is drawn, and a command is run in it.                       *)
(***************************************************************************)
MaxCliTags == 3

\* "v2024.01.18.1", "2024.01.18.01", "2024.01.17.5", "v1.2.3"
CliTagPool ==
    { <<"v", "2", "0", "2", "4", ".", "0", "1", ".", "1", "8", ".", "1">>,
      <<"2", "0", "2", "4", ".", "0", "1", ".", "1", "8", ".", "0", "1">>,
      <<"2", "0", "2", "4", ".", "0", "1", ".", "1", "7", ".", "5">>,
      <<"v", "1", ".", "2", ".", "3">> }

CliTagLists == UNION { [1..n -> CliTagPool] : n \in 0..MaxCliTags }

\* "2024.01.18.1"
InstalledVersion == <<"2", "0", "2", "4", ".", "0", "1", ".", "1", "8", ".", "1">>

Init ==
    /\ git_status \in GitStatuses
    /\ repo_tags \in CliTagLists
    /\ current_date \in { <<2024, 1, 18>>, <<2024, 1, 19>> }
    /\ pkg_version \in {NoStr, InstalledVersion}
    /\ version_file \in {NoStr, InstalledVersion \o <<"\n">>}
    /\ packaging = TRUE
    /\ IdleFn /\ IdleProc /\ IdleRel

VersionCalc ==
    \E j \in BOOLEAN :
        LET a == [command |-> "calc", json |-> j] IN
        /\ NotRun
        /\ Ran(a, version_calc(a, current_date, git_status, repo_tags))

VersionCheck ==
    \E j \in BOOLEAN :
        LET a == [command |-> "check", json |-> j] IN
        /\ NotRun
        /\ Ran(a, version_check(a, pkg_version, git_status, repo_tags, version_file))

VersionInfo ==
    \E j \in BOOLEAN :
        LET a == [command |-> "info", json |-> j] IN
        /\ NotRun
        /\ Ran(a, version_info(a, current_date, git_status, repo_tags, pkg_version))

Next == VersionCalc \/ VersionCheck \/ VersionInfo

Spec == Init /\ [][Next]_vars

(***************************************************************************)
(* The commands that work on their arguments (validate, compare): only the *)
(* presence of the packaging library is drawn from the environment.        *)
(***************************************************************************)
MaxVersions == 3

\* "2024.01.18.1", "v2024.01.18.1", "2024.01.18.2", "2024.01.18.10",
\* "2024.02.01.1", "2025.01.01.1", "2024.1.18.1", "2024.01.18.0"
VersionPool ==
    { <<"2", "0", "2", "4", ".", "0", "1", ".", "1", "8", ".", "1">>,
      <<"v", "2", "0", "2", "4", ".", "0", "1", ".", "1", "8", ".", "1">>,
      <<"2", "0", "2", "4", ".", "0", "1", ".", "1", "8", ".", "2">>,
      <<"2", "0", "2", "4", ".", "0", "1", ".", "1", "8", ".", "1", "0">>,
      <<"2", "0", "2", "4", ".", "0", "2", ".", "0", "1", ".", "1">>,
      <<"2", "0", "2", "5", ".", "0", "1", ".", "0", "1", ".", "1">>,
      <<"2", "0", "2", "4", ".", "1", ".", "1", "8", ".", "1">>,
      <<"2", "0", "2", "4", ".", "0", "1", ".", "1", "8", ".", "0">> }

\* the versions lists version_compare is given: every pair, and lists of
\* every other length
VersionLists ==
    [1..2 -> VersionPool]
        \cup { [i \in 1..n |-> v] : v \in VersionPool, n \in (0..MaxVersions) \ {2} }

\* the version version_validate is given: None, "", and texts of every kind
\* for the day 01.18
ValidateArgs ==
    { NoStr, << >> } \cup VersionPool \cup
    { l \o y \o <<".", "0", "1">> \o <<".", "1", "8">> \o u \o t :
        l \in Leads, y \in YearTexts, u \in MicroSegs, t \in Trails }

ArgsInit ==
    /\ packaging \in BOOLEAN
    /\ git_status = "ok"
    /\ repo_tags = << >>
    /\ current_date = <<2024, 1, 18>>
    /\ pkg_version = NoStr
    /\ version_file = NoStr
    /\ IdleFn /\ IdleProc /\ IdleRel

VersionValidate ==
    \E j \in BOOLEAN, v \in ValidateArgs :
        LET a == [command |-> "validate", json |-> j, version |-> v] IN
        /\ NotRun
        /\ Ran(a, version_validate(a, packaging))

VersionCompare ==
    \E j \in BOOLEAN, vs \in VersionLists :
        LET a == [command |-> "compare", json |-> j, versions |-> vs] IN
        /\ NotRun
        /\ Ran(a, version_compare(a))

ArgsNext == VersionValidate \/ VersionCompare

SpecArgs == ArgsInit /\ [][ArgsNext]_vars

(***************************************************************************)
(* What the claims about the commands compare the code against.            *)
(***************************************************************************)
\* s is the text of a valid CalVer value, surrounding whitespace apart
IsValidText(s) == IsCalverShape(Trimmed(s)) /\ InRange(Trimmed(s))

\* x comes before y in the lexicographic order of (year, month, day, micro)
LexLess(x, y) ==
    \E i \in 1..4 : x[i] < y[i] /\ \A j \in 1..(i - 1) : x[j] = y[j]

\* the comparison result a compare run printed for v1 and v2, "?" if none
ResultIn(out, v1, v2) ==
    IF Len(out) # 1 THEN "?"
    ELSE IF out[1].kind = "json" THEN out[1].body.comparison
    ELSE IF out[1].body = v1 \o <<" ", "<", " ">> \o v2 THEN "<"
    ELSE IF out[1].body = v1 \o <<" ", ">", " ">> \o v2 THEN ">"
    ELSE IF out[1].body = v1 \o <<" ", "=", "=", " ">> \o v2 THEN "=="
    ELSE "?"

\* what the compare command reports for v1 and v2 in the mode of this run
Reports(v1, v2) ==
    ResultIn(version_compare([command |-> "compare", json |-> args.json,
                              versions |-> <<v1, v2>>]).stdout, v1, v2)

Compared == args.command = "compare" /\ exit_code = 0

(***************************************************************************)
(* C7: for two valid version strings the compare command reports exactly   *)
(* one of "<", ">", "==", and it is the lexicographic comparison of the    *)
(* parsed (year, month, day, micro) tuples: "==" exactly when the tuples   *)
(* are equal, a < b implies b > a, and a < b, b < c imply a < c.           *)
(***************************************************************************)
C7_CompareIsLexicographic ==
    Compared =>
        LET a == args.versions[1]
            b == args.versions[2]
            r == ResultIn(stdout, a, b)
        IN  /\ r \in {"<", ">", "=="}
            /\ r = "<" <=> LexLess(parse_calver_tag(a), parse_calver_tag(b))
            /\ r = ">" <=> LexLess(parse_calver_tag(b), parse_calver_tag(a))
            /\ r = "==" <=> parse_calver_tag(a) = parse_calver_tag(b)
            /\ r = "<" => Reports(b, a) = ">"
            /\ r = ">" => Reports(b, a) = "<"
            /\ \A c \in VersionPool :
                  r = "<" /\ Reports(b, c) = "<" => Reports(a, c) = "<"

\* within one day, micro 10 against micro 2: the micro breaks the tie, as a number
C7_Witness ==
    /\ Compared /\ ~args.json
    /\ parse_calver_tag(args.versions[1]) = <<2024, 1, 18, 10>>
    /\ parse_calver_tag(args.versions[2]) = <<2024, 1, 18, 2>>
    /\ ResultIn(stdout, args.versions[1], args.versions[2]) = ">"

(***************************************************************************)
(* C8: the compare command returns 0 exactly when it is given two version  *)
(* strings that are both valid CalVer, and 1 otherwise (another number of  *)
(* versions, or an invalid string); when it returns 1 it prints nothing on *)
(* standard output.                                                        *)
(***************************************************************************)
C8_CompareExitCode ==
    args.command = "compare" =>
        /\ exit_code \in {0, 1}
        /\ exit_code = 0 <=>
              /\ Len(args.versions) = 2
              /\ IsValidText(args.versions[1])
              /\ IsValidText(args.versions[2])
        /\ exit_code = 1 => stdout = << >> /\ stderr # << >>

\* two versions, the first valid and the second not, in JSON mode
C8_Witness ==
    /\ args.command = "compare" /\ args.json
    /\ Len(args.versions) = 2
    /\ IsValidText(args.versions[1]) /\ ~IsValidText(args.versions[2])
    /\ exit_code = 1 /\ stdout = << >>

\* three versions, all valid
C8_WitnessCount ==
    /\ args.command = "compare" /\ Len(args.versions) = 3
    /\ IsValidText(args.versions[1])
    /\ exit_code = 1 /\ stdout = << >>

(***************************************************************************)
(* C9 as stated: the check command returns 0 if at least one of the three  *)
(* sources (package metadata, a valid CalVer git tag, the VERSION file)    *)
(* yields a version and 1 if none does, and the exit code is the same in   *)
(* text mode and in JSON mode.                                             *)
(***************************************************************************)
SomeSourceFound ==
    \/ pkg_version # NoStr /\ pkg_version # << >>
    \/ git_status = "ok" /\ \E i \in 1..Len(repo_tags) : IsValidText(repo_tags[i])
    \/ version_file # NoStr

C9_Original ==
    args.command = "check" =>
        /\ exit_code = (IF SomeSourceFound THEN 0 ELSE 1)
        /\ args.json =>
              exit_code =
                  version_check([command |-> "check", json |-> FALSE], pkg_version,
                                git_status, repo_tags, version_file).exit_code

(***************************************************************************)
(* C10 as stated: the validate command returns 0 exactly when its version  *)
(* argument parses as a valid CalVer value, and 1 otherwise (a missing or  *)
(* empty argument included); the exit code is the same in text and JSON    *)
(* mode; in JSON mode pep440_compliant is true only if valid_format is.    *)
(***************************************************************************)
C10_Original ==
    args.command = "validate" =>
        /\ exit_code =
              (IF args.version # NoStr /\ args.version # << >>
                  /\ parse_calver_tag(args.version) # None THEN 0 ELSE 1)
        /\ exit_code =
              version_validate([command |-> "validate", json |-> ~args.json,
                                version |-> args.version], packaging).exit_code
        /\ args.json /\ stdout # << >> =>
              (stdout[1].body.pep440_compliant => stdout[1].body.valid_format)

(***************************************************************************)
(* C12 as stated: in the commands that compute the next version (calc and  *)
(* info), an error raised during the computation is caught by the command, *)
(* reported on standard error, and the command returns 1; it returns 0     *)
(* only when no such error occurred.                                       *)
(***************************************************************************)
ComputationFailed ==
    calculate_next_version(current_date, git_status, repo_tags).exc # ""

C12_Original ==
    args.command \in {"calc", "info"} =>
        /\ exit_code = (IF ComputationFailed THEN 1 ELSE 0)
        /\ ComputationFailed => stdout = << >> /\ stderr # << >>

(***************************************************************************)
(* Release runs: calculate_next_version() is called again and again; each  *)
(* version it returns is added to the tags of the repository before the    *)
(* next calculation, and the clock only moves forward.  released keeps,    *)
(* for each calculation that returned, the version, the date, the tags of  *)
(* the repository at that moment and how the git subprocess behaved.       *)
(***************************************************************************)
MaxReleases == 3
MaxInitialTags == 2

\* "v2024.01.18.1", "2024.01.18.3", "2024.01.19.2", "v1.2.3"
ReleaseTagPool ==
    { <<"v", "2", "0", "2", "4", ".", "0", "1", ".", "1", "8", ".", "1">>,
      <<"2", "0", "2", "4", ".", "0", "1", ".", "1", "8", ".", "3">>,
      <<"2", "0", "2", "4", ".", "0", "1", ".", "1", "9", ".", "2">>,
      <<"v", "1", ".", "2", ".", "3">> }

ReleaseDates == << <<2024, 1, 18>>, <<2024, 1, 19>>, <<2024, 2, 1>> >>

InitialTagLists == UNION { [1..n -> ReleaseTagPool] : n \in 0..MaxInitialTags }

ReleaseInit ==
    /\ git_status = "ok"
    /\ repo_tags \in InitialTagLists
    /\ current_date = ReleaseDates[1]
    /\ pkg_version = NoStr /\ version_file = NoStr /\ packaging = TRUE
    /\ IdleFn /\ IdleProc /\ IdleRel

\* the outcome ret of a calculation under git behaviour status: a returned
\* version becomes a tag; a calculation that raises leaves the tags alone
Tagged(status, ret) ==
    /\ git_status' = status
    /\ call' = [fn  |-> "calculate_next_version",
                arg |-> <<current_date, repo_tags>>,
                ret |-> ret]
    /\ released' =
          IF ret.exc = ""
          THEN Append(released, [version |-> ret.val, date |-> current_date,
                                 tags |-> repo_tags, status |-> status])
          ELSE released
    /\ repo_tags' = IF ret.exc = "" THEN Append(repo_tags, ret.val) ELSE repo_tags
    /\ UNCHANGED <<text, origin, current_date, pkg_version, version_file,
                   packaging, procVars>>

\* git works, fails in a way get_git_tags catches, or in one it does not
ReleaseStatuses == {"ok", "CalledProcessError", "PermissionError"}

Release ==
    \E status \in ReleaseStatuses :
        /\ Len(released) < MaxReleases
        /\ Tagged(status, calculate_next_version(current_date, status, repo_tags))

\* datetime.utcnow() gives a later date at a later calculation
AdvanceDate ==
    \E i, j \in 1..Len(ReleaseDates) :
        /\ current_date = ReleaseDates[i]
        /\ i < j
        /\ current_date' = ReleaseDates[j]
        /\ UNCHANGED <<fnVars, git_status, repo_tags, pkg_version, version_file,
                       packaging, procVars, relVars>>

ReleaseNext == Release \/ AdvanceDate

SpecRelease == ReleaseInit /\ [][ReleaseNext]_vars

\* date a comes before date b
DateBefore(a, b) == LexLess(a \o <<1>>, b \o <<1>>)

\* the tags git handed to the i-th calculation that returned
TagsSeen(i) == get_git_tags(released[i].status, released[i].tags).val

\* every version returned before the i-th one was among the tags handed to
\* the i-th calculation
EarlierAdded(i) ==
    \A j \in 1..(i - 1) :
        \E k \in 1..Len(TagsSeen(i)) : TagsSeen(i)[k] = released[j].version

(***************************************************************************)
(* C13: release sequence monotonicity.  When every version returned so far *)
(* is in the tag collection handed to a calculation and the date has not   *)
(* decreased, the version this calculation returns differs, as text and as *)
(* parsed value, from every tag of that collection, and is strictly        *)
(* greater in the (year, month, day, micro) order than every version       *)
(* returned earlier.                                                       *)
(***************************************************************************)
C13_ReleaseMonotonic ==
    \A i \in 1..Len(released) :
        EarlierAdded(i) =>
            /\ \A k \in 1..Len(TagsSeen(i)) :
                  /\ released[i].version # TagsSeen(i)[k]
                  /\ parse_calver_tag(released[i].version)
                        # parse_calver_tag(TagsSeen(i)[k])
            /\ \A j \in 1..(i - 1) :
                  /\ ~DateBefore(released[i].date, released[j].date)
                  /\ LexLess(parse_calver_tag(released[j].version),
                             parse_calver_tag(released[i].version))

\* two releases on a day that already has micro 3, then one on the next day,
\* which already has micro 2
C13_Witness ==
    /\ Len(released) = 3
    /\ \A i \in 1..3 : released[i].status = "ok" /\ EarlierAdded(i)
    /\ released[1].version = FormatVersion(2024, 1, 18, 4)
    /\ released[2].version = FormatVersion(2024, 1, 18, 5)
    /\ released[3].version = FormatVersion(2024, 1, 19, 3)

(***************************************************************************)
(* What the check command reported under git_tag: the values of the        *)
(* git_tag items of the JSON object, or of the "  git_tag: ..." lines.     *)
(***************************************************************************)
GitTagEntries ==
    IF stdout = << >> THEN {}
    ELSE IF stdout[1].kind = "json"
    THEN { stdout[1].body.versions[i][2] :
             i \in { k \in 1..Len(stdout[1].body.versions) :
                       stdout[1].body.versions[k][1] = "git_tag" } }
    ELSE { SubSeq(stdout[i].body, 4, Len(stdout[i].body)) :
             i \in { k \in 2..Len(stdout) : stdout[k].body[2] = "git_tag" } }

\* the tags the tag source supplies: none when the fetch fails
SuppliedTags ==
    IF git_status = "ok" THEN get_git_tags(git_status, repo_tags).val ELSE << >>

ParsableTags == { i \in 1..Len(SuppliedTags) : parse_calver_tag(SuppliedTags[i]) # None }

\* no parsable tag has a greater (year, month, day, micro) than tag i
IsMaximal(i) ==
    \A j \in ParsableTags :
        ~LexLess(parse_calver_tag(SuppliedTags[i]), parse_calver_tag(SuppliedTags[j]))

(***************************************************************************)
(* C14: in the check command, when at least one tag of the tag source      *)
(* parses as CalVer, exactly one git_tag is reported and it is the text,   *)
(* one leading 'v' removed, of a parsable tag whose (year, month, day,     *)
(* micro) is the maximum over the parsable tags; a tag that does not parse *)
(* is never reported; when no tag parses, no git_tag is reported.          *)
(***************************************************************************)
C14_LatestGitTag ==
    args.command = "check" =>
        /\ ParsableTags = {} => GitTagEntries = {}
        /\ ParsableTags # {} =>
              \E i \in ParsableTags :
                  /\ IsMaximal(i)
                  /\ GitTagEntries = { WithoutV(SuppliedTags[i]) }
        /\ \A e \in GitTagEntries : parse_calver_tag(e) # None

\* an older tag and a tag that does not parse are listed before the latest
\* one, which carries the 'v' prefix
C14_Witness ==
    /\ args.command = "check"
    /\ Len(SuppliedTags) = 3
    /\ parse_calver_tag(SuppliedTags[1]) = <<2024, 1, 17, 5>>
    /\ parse_calver_tag(SuppliedTags[2]) = None
    /\ SuppliedTags[3][1] = "v"
    /\ GitTagEntries = { FormatVersion(2024, 1, 18, 1) }

\* two tags with the same parsed value and different texts: the one git
\* lists first is reported
C14_WitnessTie ==
    /\ args.command = "check" /\ args.json
    /\ Len(SuppliedTags) = 2
    /\ SuppliedTags[1] # SuppliedTags[2]
    /\ parse_calver_tag(SuppliedTags[1]) = parse_calver_tag(SuppliedTags[2])
    /\ parse_calver_tag(SuppliedTags[1]) # None
    /\ GitTagEntries = { SuppliedTags[1] }

====
